---- MODULE Spec2Model ----
(***************************************************************************)
(* Model of twoStepRetrival.py: a module-level script that initialises the *)
(* Pinecone client and the sentence-transformer model, then runs           *)
(*   generate_embedding -> query_pinecone -> prepare_documents ->          *)
(*   rerank_results -> format_results -> display_results -> json.dump      *)
(* once, top to bottom.  An uncaught exception ends the process.           *)
(*                                                                         *)
(* Python values: a str is a sequence of one-character strings; a metadata *)
(* value is tagged with its Python type, because Pinecone metadata may     *)
(* hold numbers as well as strings.  Scores are integers (fixed-point).    *)
(***************************************************************************)
EXTENDS Integers, Sequences, FiniteSets, TLC

(* ---- program constants ---- *)
top_k == 50
top_n == 10
TruncLen == 200

(* ---- bounds of the model ---- *)
IndexSize == 54
MaxStart == 4
MaxTextLen == 202
MaxRelevance == 2
MaxTopN == 12
MaxDocs == 14

Min(a, b) == IF a < b THEN a ELSE b

(* ---- Python values ---- *)
Str(s) == [type |-> "str", val |-> s]
Num == [type |-> "num", val |-> <<"7">>]

Ellipsis == <<".", ".", ".">>

Placeholder ==
  <<"N", "o", " ", "d", "e", "s", "c", "r", "i", "p", "t", "i", "o", "n",
    " ", "a", "v", "a", "i", "l", "a", "b", "l", "e">>

EnvNames == {"PINECONE_API_KEY", "PINECONE_ENVIRONMENT", "PINECONE_INDEX_NAME"}

Stages ==
  {"init", "load_model", "embed", "retrieve", "assemble", "rerank",
   "format", "display", "save"}

(* ---- the remote index: the vectors stored in it ---- *)
Alphabet == <<"a", "b", "c">>
Text(len, p) == [j \in 1..len |-> Alphabet[((j + p) % 3) + 1]]

LenTable ==
  <<0, 1, 3, 2, 5, TruncLen - 1, 4, TruncLen, 1, TruncLen + 1, 2, MaxTextLen, 3>>
TextLenOf(p) == LenTable[(p % Len(LenTable)) + 1]

NumPos == MaxStart - 2
NoMetaPos == MaxStart - 1

StoredMetadata(p) ==
  IF p = NumPos THEN [description |-> Num, category |-> Str(<<"c">>)]
  ELSE IF p % 5 = 0 THEN [category |-> Str(<<"c">>)]
  ELSE [description |-> Str(Text(TextLenOf(p), p)), category |-> Str(<<"c">>)]

(* the j-th match of a reply whose nearest stored vector is number start *)
Match(start, j) ==
  LET p == start + j - 1 IN
  IF p = NoMetaPos
  THEN [id |-> p, score |-> 100 - j]
  ELSE [id |-> p, score |-> 100 - j, metadata |-> StoredMetadata(p)]

(* index.query(vector, top_k, include_metadata=True): at most k matches *)
PineconeQuery(k, start, n) ==
  [matches |-> [j \in 1..Min(n, k) |-> Match(start, j)]]

(* ---- the remote reranker ---- *)
RelScore(id, r) ==
  CASE r = 0 -> 300 + id
    [] r = 1 -> 500 - id
    [] OTHER -> 700 + ((id * (r + 5)) % 11)

Scored(docs, r) ==
  [i \in 1..Len(docs) |-> [document |-> docs[i], score |-> RelScore(docs[i].id, r)]]

Before(s, i, j) ==
  \/ s[i].score > s[j].score
  \/ s[i].score = s[j].score /\ i < j

PosOf(s, i) == 1 + Cardinality({j \in 1..Len(s) : Before(s, j, i)})

SortDesc(s) == [k \in 1..Len(s) |-> s[CHOOSE i \in 1..Len(s) : PosOf(s, i) = k]]

(* pinecone.rerank(model, query, documents, top_n) *)
PineconeRerank(docs, n, r) ==
  SubSeq(SortDesc(Scored(docs, r)), 1, Min(n, Len(docs)))

(* ---- the functions of the script ---- *)
DictGet(d, k, default) == IF k \in DOMAIN d THEN d[k] ELSE default

query_pinecone(k, start, n) == PineconeQuery(k, start, n)

(* match["metadata"] raises KeyError when the match has no metadata *)
PrepareRaises(results) ==
  \E i \in 1..Len(results.matches) : "metadata" \notin DOMAIN results.matches[i]

(* variant: matches without a description are left out *)
prepare_documents_Filtered(results) ==
  LET kept == SelectSeq(results.matches, LAMBDA m : "description" \in DOMAIN m.metadata)
  IN [i \in 1..Len(kept) |->
        [id |-> kept[i].id, text |-> kept[i].metadata.description,
         score |-> kept[i].score]]

prepare_documents(results) ==
  [i \in 1..Len(results.matches) |->
     [id |-> results.matches[i].id,
      text |-> DictGet(results.matches[i].metadata, "description", Str(Placeholder)),
      score |-> results.matches[i].score]]

(* variant: top_n is not passed on, the retrieval depth is used instead *)
rerank_results_TopK(docs, n, r) == PineconeRerank(docs, top_k, r)

rerank_results(docs, n, r) == PineconeRerank(docs, n, r)

(* text[:k] *)
Slice(s, k) == SubSeq(s, 1, Min(k, Len(s)))

(* variant: the marker is appended only when something was cut off *)
Describe_Guarded(text) ==
  IF Len(text) > TruncLen THEN Slice(text, TruncLen) \o Ellipsis ELSE text

Describe(text) == Slice(text, TruncLen) \o Ellipsis

(* result["document"]["text"][:200] + "..." raises TypeError unless text is a str *)
FormatRaises(reranked) ==
  \E i \in 1..Len(reranked) : reranked[i].document.text.type # "str"

(* variant: enumerate without the start value 1 *)
format_results_ZeroBased(reranked) ==
  [i \in 1..Len(reranked) |->
     [rank |-> i - 1,
      score |-> reranked[i].score,
      id |-> reranked[i].document.id,
      description |-> Describe(reranked[i].document.text.val)]]

(* variant: the score is read from the document instead of the result *)
format_results_DocScore(reranked) ==
  [i \in 1..Len(reranked) |->
     [rank |-> i,
      score |-> reranked[i].document.score,
      id |-> reranked[i].document.id,
      description |-> Describe(reranked[i].document.text.val)]]

format_results(reranked) ==
  [i \in 1..Len(reranked) |->
     [rank |-> i,
      score |-> reranked[i].score,
      id |-> reranked[i].document.id,
      description |-> Describe(reranked[i].document.text.val)]]

(* the lines display_results prints *)
display_results(formatted) ==
  <<"header">> \o
  [i \in 1..(4 * Len(formatted)) |->
     CASE i % 4 = 1 -> "Rank"
       [] i % 4 = 2 -> "Score"
       [] i % 4 = 3 -> "Product ID"
       [] OTHER -> "Description"]

(* json.dump: a JSON array of objects, members in insertion order *)
JsonNumber(key, n) == [key |-> key, type |-> "number", num |-> n, str |-> <<>>]
JsonString(key, s) == [key |-> key, type |-> "string", num |-> 0, str |-> s]

JsonObject(rec) ==
  <<JsonNumber("rank", rec.rank), JsonNumber("score", rec.score),
    JsonNumber("id", rec.id), JsonString("description", rec.description)>>

(* variant: the last record is not written *)
JsonDump_DropsLast(formatted) ==
  [i \in 1..(Len(formatted) - 1) |-> JsonObject(formatted[i])]

JsonDump(formatted) == [i \in 1..Len(formatted) |-> JsonObject(formatted[i])]

(* ---- state ---- *)
VARIABLES pc, environ, query_embedding, search_results, documents,
          reranked_results, formatted_output, stdout, file, log, calls,
          inflight, failed, arg_top_n

vars == <<pc, environ, query_embedding, search_results, documents,
          reranked_results, formatted_output, stdout, file, log, calls,
          inflight, failed, arg_top_n>>

NoFile == [exists |-> FALSE, opened |-> FALSE, content |-> <<>>]
OldFile == [exists |-> TRUE, opened |-> FALSE,
            content |-> <<<<JsonNumber("stale", 0)>>>>]

Info(stage) == [level |-> "INFO", stage |-> stage]
Error(stage) == [level |-> "ERROR", stage |-> stage]

Invoke(stage) == calls' = [calls EXCEPT ![stage] = @ + 1]

(* an exception that reaches the top level ends the process *)
Abort(stage) == pc' = "aborted" /\ failed' = stage

Init ==
  /\ pc = "init"
  /\ environ \in [EnvNames -> BOOLEAN]
  /\ query_embedding = <<>>
  /\ search_results = [matches |-> <<>>]
  /\ documents = <<>>
  /\ reranked_results = <<>>
  /\ formatted_output = <<>>
  /\ stdout = <<>>
  /\ file \in {NoFile, OldFile}
  /\ log = <<>>
  /\ calls = [s \in Stages |-> 0]
  /\ inflight = {}
  /\ failed = "none"
  /\ arg_top_n = 0

(* ---- initialisation ---- *)
InitPineconeOk ==
  /\ pc = "init"
  /\ Invoke("init")
  /\ pc' = "load_model"
  /\ log' = Append(log, Info("init"))
  /\ UNCHANGED <<environ, query_embedding, search_results, documents,
                 reranked_results, formatted_output, stdout, file, inflight, failed, arg_top_n>>

InitPineconeFail ==
  /\ pc = "init"
  /\ Invoke("init")
  /\ log' = Append(log, Error("init"))
  /\ Abort("init")
  /\ UNCHANGED <<environ, query_embedding, search_results, documents,
                 reranked_results, formatted_output, stdout, file, inflight, arg_top_n>>

LoadModelOk ==
  /\ pc = "load_model"
  /\ Invoke("load_model")
  /\ pc' = "embed"
  /\ log' = Append(log, Info("load_model"))
  /\ UNCHANGED <<environ, query_embedding, search_results, documents,
                 reranked_results, formatted_output, stdout, file, inflight, failed, arg_top_n>>

LoadModelFail ==
  /\ pc = "load_model"
  /\ Invoke("load_model")
  /\ log' = Append(log, Error("load_model"))
  /\ Abort("load_model")
  /\ UNCHANGED <<environ, query_embedding, search_results, documents,
                 reranked_results, formatted_output, stdout, file, inflight, arg_top_n>>

(* ---- generate_embedding ---- *)
Embedding == <<3, 1, 2>>

EmbedOk ==
  /\ pc = "embed"
  /\ Invoke("embed")
  /\ query_embedding' = Embedding
  /\ log' = Append(log, Info("embed"))
  /\ pc' = "retrieve"
  /\ UNCHANGED <<environ, search_results, documents, reranked_results,
                 formatted_output, stdout, file, inflight, failed, arg_top_n>>

EmbedFail ==
  /\ pc = "embed"
  /\ Invoke("embed")
  /\ log' = Append(log, Error("embed"))
  /\ Abort("embed")
  /\ UNCHANGED <<environ, query_embedding, search_results, documents,
                 reranked_results, formatted_output, stdout, file, inflight, arg_top_n>>

(* ---- query_pinecone: the request is sent, then the reply or an error arrives ---- *)
(* variant: the script goes on without waiting for the reply *)
QueryCall_NotAwaited ==
  /\ pc = "retrieve"
  /\ Invoke("retrieve")
  /\ inflight' = inflight \cup {"retrieve"}
  /\ pc' = "assemble"
  /\ UNCHANGED <<environ, query_embedding, search_results, documents,
                 reranked_results, formatted_output, stdout, file, log, failed,
                 arg_top_n>>

QueryCall ==
  /\ pc = "retrieve"
  /\ Invoke("retrieve")
  /\ inflight' = inflight \cup {"retrieve"}
  /\ pc' = "retrieving"
  /\ UNCHANGED <<environ, query_embedding, search_results, documents,
                 reranked_results, formatted_output, stdout, file, log,
                 failed, arg_top_n>>

QueryReturn ==
  /\ pc = "retrieving"
  /\ \E start \in 1..MaxStart, n \in 0..(IndexSize - MaxStart + 1) :
       search_results' = query_pinecone(top_k, start, n)
  /\ inflight' = inflight \ {"retrieve"}
  /\ log' = Append(log, Info("retrieve"))
  /\ pc' = "assemble"
  /\ UNCHANGED <<environ, query_embedding, documents, reranked_results,
                 formatted_output, stdout, file, calls, failed, arg_top_n>>

QueryFail ==
  /\ pc = "retrieving"
  /\ inflight' = inflight \ {"retrieve"}
  /\ log' = Append(log, Error("retrieve"))
  /\ Abort("retrieve")
  /\ UNCHANGED <<environ, query_embedding, search_results, documents,
                 reranked_results, formatted_output, stdout, file, calls, arg_top_n>>

(* ---- prepare_documents ---- *)
AssembleOk ==
  /\ pc = "assemble"
  /\ ~PrepareRaises(search_results)
  /\ Invoke("assemble")
  /\ documents' = prepare_documents(search_results)
  /\ log' = Append(log, Info("assemble"))
  /\ pc' = "rerank"
  /\ UNCHANGED <<environ, query_embedding, search_results, reranked_results,
                 formatted_output, stdout, file, inflight, failed, arg_top_n>>

AssembleFail ==
  /\ pc = "assemble"
  /\ PrepareRaises(search_results)
  /\ Invoke("assemble")
  /\ log' = Append(log, Error("assemble"))
  /\ Abort("assemble")
  /\ UNCHANGED <<environ, query_embedding, search_results, documents,
                 reranked_results, formatted_output, stdout, file, inflight, arg_top_n>>

(* ---- rerank_results ---- *)
(* the call binds the parameter top_n; the script passes none, so the default *)
RerankCallWith(n) ==
  /\ pc = "rerank"
  /\ Invoke("rerank")
  /\ arg_top_n' = n
  /\ inflight' = inflight \cup {"rerank"}
  /\ pc' = "reranking"
  /\ UNCHANGED <<environ, query_embedding, search_results, documents,
                 reranked_results, formatted_output, stdout, file, log, failed>>

RerankCall == RerankCallWith(top_n)

RerankReturn ==
  /\ pc = "reranking"
  /\ \E r \in 0..MaxRelevance :
       reranked_results' = rerank_results(documents, arg_top_n, r)
  /\ inflight' = inflight \ {"rerank"}
  /\ log' = Append(log, Info("rerank"))
  /\ pc' = "format"
  /\ UNCHANGED <<environ, query_embedding, search_results, documents,
                 formatted_output, stdout, file, calls, failed, arg_top_n>>

(* variant: the error is logged and swallowed, the script goes on *)
RerankFail_Swallowed ==
  /\ pc = "reranking"
  /\ inflight' = inflight \ {"rerank"}
  /\ log' = Append(log, Error("rerank"))
  /\ failed' = "rerank"
  /\ pc' = "format"
  /\ UNCHANGED <<environ, query_embedding, search_results, documents,
                 reranked_results, formatted_output, stdout, file, calls,
                 arg_top_n>>

RerankFail ==
  /\ pc = "reranking"
  /\ inflight' = inflight \ {"rerank"}
  /\ log' = Append(log, Error("rerank"))
  /\ Abort("rerank")
  /\ UNCHANGED <<environ, query_embedding, search_results, documents,
                 reranked_results, formatted_output, stdout, file, calls, arg_top_n>>

(* ---- format_results: no try/except, an exception propagates unlogged ---- *)
FormatOk ==
  /\ pc = "format"
  /\ ~FormatRaises(reranked_results)
  /\ Invoke("format")
  /\ formatted_output' = format_results(reranked_results)
  /\ pc' = "display"
  /\ UNCHANGED <<environ, query_embedding, search_results, documents,
                 reranked_results, stdout, file, log, inflight, failed, arg_top_n>>

FormatFail ==
  /\ pc = "format"
  /\ FormatRaises(reranked_results)
  /\ Invoke("format")
  /\ Abort("format")
  /\ UNCHANGED <<environ, query_embedding, search_results, documents,
                 reranked_results, formatted_output, stdout, file, log,
                 inflight, arg_top_n>>

(* ---- display_results: print may raise (closed or non-encoding stdout) ---- *)
DisplayOk ==
  /\ pc = "display"
  /\ Invoke("display")
  /\ stdout' = stdout \o display_results(formatted_output)
  /\ pc' = "save"
  /\ UNCHANGED <<environ, query_embedding, search_results, documents,
                 reranked_results, formatted_output, file, log, inflight,
                 failed, arg_top_n>>

DisplayFail ==
  /\ pc = "display"
  /\ Invoke("display")
  /\ \E printed \in 0..Len(display_results(formatted_output)) - 1 :
       stdout' = stdout \o SubSeq(display_results(formatted_output), 1, printed)
  /\ Abort("display")
  /\ UNCHANGED <<environ, query_embedding, search_results, documents,
                 reranked_results, formatted_output, file, log, inflight, arg_top_n>>

(* ---- open("recommendations.json", "w"), json.dump, logger.info ---- *)
SaveOk ==
  /\ pc = "save"
  /\ Invoke("save")
  /\ file' = [exists |-> TRUE, opened |-> TRUE, content |-> JsonDump(formatted_output)]
  /\ log' = Append(log, Info("save"))
  /\ pc' = "done"
  /\ UNCHANGED <<environ, query_embedding, search_results, documents,
                 reranked_results, formatted_output, stdout, inflight,
                 failed, arg_top_n>>

(* open raises: the file is left as it was *)
SaveOpenFail ==
  /\ pc = "save"
  /\ Invoke("save")
  /\ Abort("save")
  /\ UNCHANGED <<environ, query_embedding, search_results, documents,
                 reranked_results, formatted_output, stdout, file, log,
                 inflight, arg_top_n>>

(* the write raises after open truncated the file *)
SaveWriteFail ==
  /\ pc = "save"
  /\ Invoke("save")
  /\ file' = [exists |-> TRUE, opened |-> TRUE, content |-> <<>>]
  /\ Abort("save")
  /\ UNCHANGED <<environ, query_embedding, search_results, documents,
                 reranked_results, formatted_output, stdout, log, inflight, arg_top_n>>

Next ==
  \/ InitPineconeOk
  \/ InitPineconeFail
  \/ LoadModelOk
  \/ LoadModelFail
  \/ EmbedOk
  \/ EmbedFail
  \/ QueryCall
  \/ QueryReturn
  \/ QueryFail
  \/ AssembleOk
  \/ AssembleFail
  \/ RerankCall
  \/ RerankReturn
  \/ RerankFail
  \/ FormatOk
  \/ FormatFail
  \/ DisplayOk
  \/ DisplayFail
  \/ SaveOk
  \/ SaveOpenFail
  \/ SaveWriteFail

Spec == Init /\ [][Next]_vars

(* ---- rerank_results on its own, for every top_n up to MaxTopN ---- *)
CleanReplies ==
  {query_pinecone(top_k, start, n) : start \in 1..MaxStart, n \in 0..MaxDocs}

RerankInit ==
  /\ pc = "rerank"
  /\ environ = [e \in EnvNames |-> TRUE]
  /\ query_embedding = Embedding
  /\ search_results \in {res \in CleanReplies : ~PrepareRaises(res)}
  /\ documents = prepare_documents(search_results)
  /\ reranked_results = <<>>
  /\ formatted_output = <<>>
  /\ stdout = <<>>
  /\ file = NoFile
  /\ log = <<Info("init"), Info("load_model"), Info("embed"), Info("retrieve"),
             Info("assemble")>>
  /\ calls = [s \in Stages |->
               IF s \in {"init", "load_model", "embed", "retrieve", "assemble"}
               THEN 1 ELSE 0]
  /\ inflight = {}
  /\ failed = "none"
  /\ arg_top_n = 0

RerankCallAny == \E n \in 1..MaxTopN : RerankCallWith(n)

RerankNext ==
  \/ RerankCallAny
  \/ RerankReturn
  \/ RerankFail

RerankSpec == RerankInit /\ [][RerankNext]_vars

(* ---- helpers for the properties ---- *)
InLog(e) == \E i \in 1..Len(log) : log[i] = e

StageOrder ==
  <<"init", "load_model", "embed", "retrieve", "assemble", "rerank",
    "format", "display", "save">>

BeforeSave == {StageOrder[i] : i \in 1..(Len(StageOrder) - 1)}

Assembled == calls["assemble"] = 1 /\ failed # "assemble"
Reranked == calls["rerank"] = 1 /\ "rerank" \notin inflight /\ failed # "rerank"
Formatted == calls["format"] = 1 /\ failed # "format"

(* C1: when initialisation or a stage before the file write fails, the output
   file is never opened or written; the file is opened only in a run in which
   every earlier stage was invoked and none of them failed. *)
C1_NoFileAfterFailure ==
  /\ failed \in BeforeSave => ~file.opened /\ file \in {NoFile, OldFile}
  /\ file.opened =>
       /\ \A s \in BeforeSave : calls[s] = 1
       /\ failed \in {"none", "save"}

C1_Witness ==
  /\ pc = "aborted"
  /\ failed = "format"
  /\ calls["rerank"] = 1
  /\ file = OldFile

(* C2 (as claimed): with one of the three environment variables missing,
   initialisation fails, and no pipeline stage and no network call happens. *)
C2_MissingEnvStopsAtInit ==
  (\E e \in EnvNames : ~environ[e]) =>
    /\ calls["init"] = 1 => failed = "init"
    /\ \A s \in Stages \ {"init"} : calls[s] = 0
    /\ inflight = {}

(* C3: the stages run in the fixed order, each at most once, each only after
   its predecessor returned successfully, and the retrieval call and the
   rerank call are never in flight together. *)
C3_FixedOrderOnce ==
  /\ \A s \in Stages : calls[s] <= 1
  /\ \A i \in 2..Len(StageOrder) :
       calls[StageOrder[i]] = 1 =>
         /\ calls[StageOrder[i - 1]] = 1
         /\ failed # StageOrder[i - 1]
         /\ StageOrder[i - 1] \notin inflight
  /\ Cardinality(inflight) <= 1
  /\ "rerank" \in inflight => "retrieve" \notin inflight /\ InLog(Info("retrieve"))

C3_Witness ==
  /\ pc = "done"
  /\ \A s \in Stages : calls[s] = 1
  /\ inflight = {}

(* C4: format_results returns one record per reranked result, with ranks
   1, 2, ..., M in that order, the record at position i built from the
   reranked result at position i. *)
C4_RanksFollowRerankOrder ==
  Formatted =>
    /\ Len(formatted_output) = Len(reranked_results)
    /\ \A i \in 1..Len(formatted_output) :
         /\ formatted_output[i].rank = i
         /\ formatted_output[i].id = reranked_results[i].document.id

C4_Witness ==
  /\ Formatted
  /\ Len(formatted_output) = top_n
  /\ \E i \in 1..(Len(formatted_output) - 1) :
       formatted_output[i].id > formatted_output[i + 1].id
  /\ \E i \in 1..(Len(formatted_output) - 1) :
       formatted_output[i].id < formatted_output[i + 1].id

(* C5: a description is the first min(200, length) characters of the text
   followed by "...", whether or not anything was cut off; at most 200
   characters before the marker, at most 203 in all. *)
C5_DescriptionTruncated ==
  Formatted =>
    \A i \in 1..Len(formatted_output) :
      LET t == reranked_results[i].document.text.val
          d == formatted_output[i].description
          body == Len(d) - 3
      IN /\ body = (IF Len(t) < 200 THEN Len(t) ELSE 200)
         /\ \A j \in 1..body : d[j] = t[j]
         /\ d[body + 1] = "." /\ d[body + 2] = "." /\ d[body + 3] = "."
         /\ body <= 200
         /\ Len(d) <= 203

C5_Witness ==
  /\ Formatted
  /\ \E i \in 1..Len(formatted_output) :
       Len(reranked_results[i].document.text.val) = 0
  /\ \E i \in 1..Len(formatted_output) :
       Len(reranked_results[i].document.text.val) = 199
  /\ \E i \in 1..Len(formatted_output) :
       Len(reranked_results[i].document.text.val) > 200

(* C6: prepare_documents returns one Document per match, in the same order,
   with the match's id and score, and as text the metadata description when
   there is one and "No description available" when there is none. *)
C6_OneDocumentPerMatch ==
  Assembled =>
    /\ Len(documents) = Len(search_results.matches)
    /\ \A i \in 1..Len(documents) :
         LET m == search_results.matches[i] IN
         /\ documents[i].id = m.id
         /\ documents[i].score = m.score
         /\ "description" \in DOMAIN m.metadata =>
              documents[i].text = m.metadata.description
         /\ "description" \notin DOMAIN m.metadata =>
              documents[i].text = [type |-> "str", val |-> Placeholder]

C6_Witness ==
  /\ Assembled
  /\ Len(documents) = top_k
  /\ \E i \in 1..Len(documents) :
       "description" \notin DOMAIN search_results.matches[i].metadata
  /\ \E i \in 1..Len(documents) :
       "description" \in DOMAIN search_results.matches[i].metadata

(* C7: for the top_n the call was given, rerank_results returns
   min(top_n, number of documents) results with scores that do not increase
   from first to last. *)
C7_RerankCountAndOrder ==
  Reranked =>
    /\ Len(reranked_results) =
         (IF Len(documents) < arg_top_n THEN Len(documents) ELSE arg_top_n)
    /\ \A i \in 1..(Len(reranked_results) - 1) :
         reranked_results[i].score >= reranked_results[i + 1].score

C7_Witness ==
  /\ Reranked
  /\ arg_top_n # top_n
  /\ Len(documents) > arg_top_n
  /\ Len(reranked_results) = arg_top_n
  /\ Len(reranked_results) > 1
  /\ reranked_results[1].score > reranked_results[Len(reranked_results)].score

(* C8 (as claimed): a stage that fails has logged the failure, and nothing
   runs after it. *)
C8_FailureIsLogged ==
  failed # "none" =>
    /\ InLog([level |-> "ERROR", stage |-> failed])
    /\ pc = "aborted"
    /\ calls[failed] = 1

(* C9: after a run in which every stage succeeded the file holds one object
   per formatted record, in the same order, with the members rank, score, id
   and description; 50 hits reranked to 10 results give 10 records with the
   ranks 1 to 10. *)
C9_FileHoldsFormattedOutput ==
  pc = "done" =>
    /\ file.opened
    /\ Len(file.content) = Len(formatted_output)
    /\ Len(file.content) = Len(reranked_results)
    /\ \A i \in 1..Len(file.content) :
         LET o == file.content[i] IN
         /\ Len(o) = 4
         /\ o[1].key = "rank" /\ o[1].type = "number"
         /\ o[1].num = formatted_output[i].rank
         /\ o[2].key = "score" /\ o[2].type = "number"
         /\ o[2].num = formatted_output[i].score
         /\ o[3].key = "id" /\ o[3].num = formatted_output[i].id
         /\ o[4].key = "description" /\ o[4].type = "string"
         /\ o[4].str = formatted_output[i].description
    /\ (Len(search_results.matches) = 50 /\ Len(reranked_results) = 10) =>
         /\ Len(file.content) = 10
         /\ \A i \in 1..10 : file.content[i][1].num = i

C9_Witness ==
  /\ pc = "done"
  /\ Len(search_results.matches) = 50
  /\ Len(reranked_results) = 10
  /\ Len(file.content) = 10

(* C10: the formatted record at position i carries the document id and the
   rerank score of the reranked result at position i, not the retrieval score
   kept inside the document. *)
C10_RerankScoreShown ==
  Formatted =>
    \A i \in 1..Len(formatted_output) :
      /\ i <= Len(reranked_results)
      /\ formatted_output[i].id = reranked_results[i].document.id
      /\ formatted_output[i].score = reranked_results[i].score

C10_Witness ==
  /\ Formatted
  /\ Len(formatted_output) > 1
  /\ \A i \in 1..Len(formatted_output) :
       /\ formatted_output[i].score = reranked_results[i].score
       /\ formatted_output[i].score # reranked_results[i].document.score
====
